---- MODULE Spec2Model ----
(***************************************************************************)
(* halui: the HAL user-interface bridge (halui.cc).  The process connects  *)
(* to the EMC command, status and error channels (tryNml), then cycles     *)
(* through check_hal_changes / modify_hal_pins / updateStatus.  A send     *)
(* increments the command serial number, writes the command and waits for  *)
(* the status echo (emcCommandWaitReceived) and the completion state       *)
(* (emcCommandWaitDone).                                                   *)
(*                                                                         *)
(* Time is counted in sleeps: one tick of tryEnd is RETRY_INTERVAL (1 s),  *)
(* one tick of end and emcTimeout is EMC_COMMAND_DELAY (0.1 s).            *)
(*                                                                         *)
(* The remote task and the NML transport are the environment: a peek that  *)
(* reports new data may deliver any status record; every other peek result *)
(* leaves the local status buffer as it was.  HAL bit pins hold 0 or 1 and *)
(* may be written by the environment at any time once they are exported.   *)
(***************************************************************************)
EXTENDS Integers, Sequences, FiniteSets, TLC

\* ---------------------------------------------------------------- bounds
MaxEcho == 2        \* echo_serial_number values the remote reports: 0..MaxEcho
MaxSends == 2       \* the environment raises input pins until this many sends were made
MaxTimeout == 2     \* SpecTimeout explores emcTimeout = 0 and emcTimeout = MaxTimeout ticks
LongTimeout == 8    \* SpecBudget explores emcTimeout = LongTimeout tenths of a second

\* ------------------------------------------------------ program constants
EMC_WAIT_NONE == 1
EMC_WAIT_RECEIVED == 2
EMC_WAIT_DONE == 3
RETRY_TICKS == 10          \* RETRY_TIME / RETRY_INTERVAL
EMC_STAT_TYPE == 1999      \* the status message type peek reports for new data
UNEXPECTED_TYPE == 11      \* any other (positive) message type
PEEK_ERROR == -1
PEEK_NO_DATA == 0
TIMEOUT_RETURN == -1       \* the return -1 after the loop of either wait
ERROR_RETURN == -1         \* the return -1 of emcCommandWaitDone on RCS_ERROR
EMC_DEBUG_NML == 64        \* the NML flag of EMC_DEBUG (emcglb.h: 0x00000040)

RCS_DONE == "RCS_DONE"
RCS_EXEC == "RCS_EXEC"
RCS_ERROR == "RCS_ERROR"
EMC_TASK_STATE_ON == "EMC_TASK_STATE_ON"
EMC_TASK_STATE_OFF == "EMC_TASK_STATE_OFF"
RCS_PRINT_TO_STDOUT == "RCS_PRINT_TO_STDOUT"
RCS_PRINT_TO_NULL == "RCS_PRINT_TO_NULL"

LINEAR_UNITS_CUSTOM == "LINEAR_UNITS_CUSTOM"
LINEAR_UNITS_AUTO == "LINEAR_UNITS_AUTO"
LINEAR_UNITS_MM == "LINEAR_UNITS_MM"
LINEAR_UNITS_INCH == "LINEAR_UNITS_INCH"
LINEAR_UNITS_CM == "LINEAR_UNITS_CM"
CANON_UNITS_INCHES == "CANON_UNITS_INCHES"
CANON_UNITS_MM == "CANON_UNITS_MM"
CANON_UNITS_CM == "CANON_UNITS_CM"
CANON_UNITS_OTHER == "CANON_UNITS_OTHER"   \* any value outside the enum

InputPins == {"machine_on", "machine_off"}
PeekResults == {PEEK_ERROR, PEEK_NO_DATA, EMC_STAT_TYPE, UNEXPECTED_TYPE}
StatusRecords ==
    [echo_serial_number : 0..MaxEcho,
     status : {RCS_DONE, RCS_EXEC, RCS_ERROR},
     task_state : {EMC_TASK_STATE_ON, EMC_TASK_STATE_OFF}]
NoStatus ==
    [echo_serial_number |-> 0, status |-> RCS_DONE, task_state |-> EMC_TASK_STATE_OFF]

VARIABLES
    pc,                          \* position of the single thread of control
    emcCommandBuffer,            \* TRUE: non-null
    emcStatusBuffer,             \* TRUE: non-null
    emcErrorBuffer,              \* TRUE: non-null
    emcStatus,                   \* TRUE: non-null (points into the status buffer)
    snapshot,                    \* the status record *emcStatus reads
    emcCommandSerialNumber,
    saveEmcCommandSerialNumber,
    emcTimeout,
    emcWaitType,
    tryEnd,                      \* tryNml's local 'end' (0 once tryNml succeeded)
    end,                         \* the wait loops' local 'end'
    serial_number,               \* the wait's parameter
    ctx,                         \* who called emcCommandWaitReceived: "send" | "quit"
    curpin,                      \* the input pin check_hal_changes is working on
    halui_data,                  \* pin memory: machine_on, machine_off, machine_is_on
    old_halui_data,              \* shadows of the input pins
    written,                     \* messages written to the command channel, in order
    retval,                      \* what the current send returned: <<>> | <<0>> | <<-1>>
    exit_status,                 \* <<>> until exit(n) is called, then <<n>>
    \* ---- history (observations; never read by the program's actions)
    w,                           \* observations of the current / last wait
    blk,                         \* the current / last block of check_hal_changes
    last,                        \* per input pin: see NoLast
    trySleeps,                   \* sleeps of the call of tryNml (0 once it succeeded)
    startupEcho,                 \* see NoEcho
    polled,                      \* the last updateStatus(): see NoPoll
    observing,                   \* TRUE: polled is kept
    interrupted,                 \* see NoSignal
    quitLog,                     \* what thisQuit did to the channels, in order
    EMC_DEBUG,                   \* the debug flags iniLoad has read ([EMC] DEBUG)
    rcs_print_destination,       \* where the RCS library sends its diagnostics
    \* ---- unit conversion (convertLinearUnits; main never calls it)
    linearUnitConversion,        \* the conversion policy
    linearUnits,                 \* emcStatus->motion.traj.linearUnits
    programUnits,                \* emcStatus->task.programUnits
    u,                           \* the argument of the call
    converted,                   \* <<>>, or <<what the last call returned>>
    convertedFor                 \* programUnits when the last call was made

vars == <<pc, emcCommandBuffer, emcStatusBuffer, emcErrorBuffer, emcStatus, snapshot,
          emcCommandSerialNumber, saveEmcCommandSerialNumber, emcTimeout, emcWaitType,
          tryEnd, end, serial_number, ctx, curpin, halui_data, old_halui_data,
          written, retval, exit_status, w, blk, last, trySleeps, startupEcho, polled,
          observing, interrupted, quitLog, EMC_DEBUG,
          rcs_print_destination, linearUnitConversion, linearUnits, programUnits,
          u, converted, convertedFor>>

progVars == <<emcCommandBuffer, emcStatusBuffer, emcErrorBuffer, emcStatus, snapshot,
              emcCommandSerialNumber, saveEmcCommandSerialNumber>>
unitVars == <<linearUnitConversion, linearUnits, programUnits, u, converted,
              convertedFor>>
cfgVars == <<emcTimeout, emcWaitType, observing, EMC_DEBUG, unitVars>>
bootVars == <<trySleeps, startupEcho>>
printVars == <<rcs_print_destination>>

\* ------------------------------------------------------------- helpers
Max(a, b) == IF a > b THEN a ELSE b

LoopPcs == {"chk_changed", "chk_nonzero", "wait_recv", "wait_done", "chk_update",
            "modify", "sleep", "update"}

\* What a call of updateStatus() can meet, <<valid, type, record>>: a channel that
\* answers valid() with false (no peek is made), or a peek that reports an error,
\* no new data or an unexpected type (the local buffer keeps its record), or a
\* peek that reports new status data and delivers a record.
PollOutcomes ==
    {<<FALSE, PEEK_ERROR, NoStatus>>}
        \cup {<<TRUE, r, NoStatus>> : r \in PeekResults \ {EMC_STAT_TYPE}}
        \cup {<<TRUE, EMC_STAT_TYPE, s>> : s \in StatusRecords}

\* What constructing the status channel can do: fail, or connect with a record.
ConnectOutcomes == {<<FALSE, NoStatus>>} \cup {<<TRUE, s>> : s \in StatusRecords}

\* One block of check_hal_changes (the pass over one input pin), as observed.
\*   sample : the pin value read by the change test (the first read of the pass)
\*   shadow0: the shadow when the pass began
\*   sent   : sends issued by the pass
\*   raced  : a later read of the pass returned a value other than sample
\*   ret    : what the send returned (<<>>: no send, else <<value>>)
\*   state  : the state asked for by the message the pass sent ("none": no send)
\*   plast  : the pin's value of last when the pass began
NoBlock == [pin |-> "none", done |-> FALSE, sample |-> 0, shadow0 |-> 0, sent |-> 0,
            raced |-> FALSE, ret |-> <<>>, state |-> "none", plast |-> FALSE]

\* last[p]: the passes over pin p up to the last finished one have sampled it
\* non-zero, without a race, ever since a pass whose send returned -1.
NoLast == FALSE

\* startupEcho: <<e>> when tryNml has failed with the status channel connected,
\* e being the echo_serial_number the status buffer held at that moment (nothing
\* polls between the connection and the failure); <<>> otherwise.
NoEcho == <<>>

\* polled: the last call of updateStatus(), until the caller has gone on (kept
\* only in the runs that observe the polls, SpecPoll):
\*   valid : what emcStatusBuffer->valid() answered
\*   peek  : what peek() returned (<<>>: no peek was made)
\*   ret   : what updateStatus returned
NoPoll == <<>>

\* interrupted: <<>> until a termination signal has arrived, then <<the place of
\* the thread of control at which it arrived>>.
NoSignal == <<>>

\* A wait (the wait of one send, or the drain of thisQuit), as observed.
\*   rcRecv : what emcCommandWaitReceived returned (<<>>: not yet, else <<value>>)
\*   how    : how the wait ended: "none" | "received" | "done" | "error" | "timeout"
\*   scen   : polls made so far, while they follow the stream
\*            [no data; echo = N, EXEC; echo = N, DONE]; -1 once they depart from it
NoWait == [rcRecv |-> <<>>, how |-> "none", scen |-> -1]
NewWait == [NoWait EXCEPT !.scen = 0]


ScenNext(k, r, snap, n) ==
    IF k = 0 /\ r = PEEK_NO_DATA /\ snap.echo_serial_number # n THEN 1
    ELSE IF k = 1 /\ r = EMC_STAT_TYPE /\ snap.echo_serial_number = n
              /\ snap.status = RCS_EXEC THEN 2
    ELSE IF k = 2 /\ r = EMC_STAT_TYPE /\ snap.echo_serial_number = n
              /\ snap.status = RCS_DONE THEN 3
    ELSE -1

\* ---------------------------------------------------------- the program
\* An updateStatus without the default branch: any message type is a success.
UpdateStatusRetLenient(valid, r) ==
    IF ~emcStatus \/ ~emcStatusBuffer \/ ~valid \/ r = PEEK_ERROR THEN -1 ELSE 0

\* updateStatus(): its return value for the channel's validity and peek result r.
UpdateStatusRet(valid, r) ==
    IF ~emcStatus \/ ~emcStatusBuffer \/ ~valid THEN -1
    ELSE IF r = PEEK_ERROR THEN -1
    ELSE IF r = PEEK_NO_DATA \/ r = EMC_STAT_TYPE THEN 0
    ELSE -1

\* A poll after which the snapshot holds what came with a message of any type.
PollSnapshotAnyType(valid, r, s) ==
    IF emcStatus /\ emcStatusBuffer /\ valid /\ r # PEEK_ERROR /\ r # PEEK_NO_DATA
    THEN s ELSE snapshot

\* The status record *emcStatus holds after updateStatus(): peek() copies the
\* remote's record s into the local buffer when it reports new status data.
PollSnapshot(valid, r, s) ==
    IF emcStatus /\ emcStatusBuffer /\ valid /\ r = EMC_STAT_TYPE THEN s ELSE snapshot

\* What polled records of the call.
PollRecord(valid, r) ==
    IF observing
    THEN <<[valid |-> valid,
            peek |-> IF emcStatus /\ emcStatusBuffer /\ valid THEN <<r>> ELSE <<>>,
            ret |-> UpdateStatusRet(valid, r)]>>
    ELSE NoPoll

\* A loop test that lets one more pass through: end <= emcTimeout.
TimeLeftLoose(e) == emcTimeout <= 0 \/ e <= emcTimeout

\* ---- the doubles of the wait loops
\* A double in [0, 2) is the natural number of 2^-60 it holds, written in five
\* digits of base 2^15, the lowest first.  The doubles from 2^-7 on have at most
\* 53 significant bits: they are multiples of Ulp.
LimbBase == 32768
LimbCount == 5
DoubleZero == <<0, 0, 0, 0, 0>>
\* n as a double: the digit of 2^60 is n.
Whole(n) == <<0, 0, 0, 0, n>>

RECURSIVE BitLen(_)
BitLen(n) == IF n = 0 THEN 0 ELSE 1 + BitLen(n \div 2)

RECURSIVE Pow2(_)
Pow2(n) == IF n = 0 THEN 1 ELSE 2 * Pow2(n - 1)

\* a + b, digit by digit with the carry
BigAdd(a, b) ==
    LET s1 == a[1] + b[1]
        s2 == a[2] + b[2] + (s1 \div LimbBase)
        s3 == a[3] + b[3] + (s2 \div LimbBase)
        s4 == a[4] + b[4] + (s3 \div LimbBase)
        s5 == a[5] + b[5] + (s4 \div LimbBase)
    IN <<s1 % LimbBase, s2 % LimbBase, s3 % LimbBase, s4 % LimbBase, s5>>

\* The remainder of the digits i..LimbCount of a divided by d, and the quotient.
RECURSIVE BigRem(_, _, _)
BigRem(a, d, i) ==
    IF i > LimbCount THEN 0 ELSE (BigRem(a, d, i + 1) * LimbBase + a[i]) % d

BigDiv(a, d) ==
    <<(BigRem(a, d, 2) * LimbBase + a[1]) \div d,
      (BigRem(a, d, 3) * LimbBase + a[2]) \div d,
      (BigRem(a, d, 4) * LimbBase + a[3]) \div d,
      (BigRem(a, d, 5) * LimbBase + a[4]) \div d,
      a[5] \div d>>

\* a < b: the highest digit that differs decides
DoubleLess(a, b) ==
    IF a[5] # b[5] THEN a[5] < b[5]
    ELSE IF a[4] # b[4] THEN a[4] < b[4]
    ELSE IF a[3] # b[3] THEN a[3] < b[3]
    ELSE IF a[2] # b[2] THEN a[2] < b[2]
    ELSE a[1] < b[1]

\* The weight of the last of the 53 significant bits of x.
Ulp(x) ==
    LET len == IF x[5] # 0 THEN 60 + BitLen(x[5]) ELSE 45 + BitLen(x[4])
    IN IF len > 53 THEN Pow2(len - 53) ELSE 1

\* x, with sticky telling that the exact value lies above x by less than one
\* unit, rounded to the nearest double, a tie to the even one.
RoundDouble(x, sticky) ==
    LET q == Ulp(x)
        low == x[1] % q
        down == [x EXCEPT ![1] = @ - low]
        up == \/ 2 * low > q
              \/ 2 * low = q /\ (sticky \/ (x[1] \div q) % 2 = 1)
    IN IF up THEN BigAdd(down, <<q, 0, 0, 0, 0>>) ELSE down

\* a + b of two doubles
DoubleAdd(a, b) == RoundDouble(BigAdd(a, b), FALSE)

\* The double written n/10 in decimal: 0.1 is Tenths(1).
Tenths(n) == RoundDouble(BigDiv(Whole(n), 10), BigRem(Whole(n), 10, 1) # 0)

EMC_COMMAND_DELAY == Tenths(1)

\* The values of the local end: the k-th is the one after k - 1 times
\* end += EMC_COMMAND_DELAY  from 0.0.
RECURSIVE ElapsedUpTo(_)
ElapsedUpTo(k) ==
    IF k = 0 THEN <<DoubleZero>>
    ELSE LET s == ElapsedUpTo(k - 1)
         IN Append(s, DoubleAdd(s[k], EMC_COMMAND_DELAY))

\* No loop makes more passes than LongestWait.
LongestWait == Max(MaxTimeout, LongTimeout) + 2
ElapsedValues == ElapsedUpTo(LongestWait)
TimeoutValues == [n \in 1..LongestWait |-> Tenths(n)]

\* The local end after k additions, and emcTimeout, as doubles.
Elapsed(k) == ElapsedValues[k + 1]
Timeout(n) == TimeoutValues[n]

\* while (emcTimeout <= 0.0 || end < emcTimeout)
\* emcTimeout is held in tenths of a second and end as the number of additions
\* made to it.
TimeLeft(e) == emcTimeout <= 0 \/ DoubleLess(Elapsed(e), Timeout(emcTimeout))

\* end += EMC_COMMAND_DELAY.  With emcTimeout <= 0 the loop test never reads end,
\* and the additions are not counted.
Tick(e) == IF emcTimeout <= 0 THEN 0 ELSE e + 1

\* An echo test that also accepts a later serial number.
EchoAtLeast(snap, n) == snap.echo_serial_number >= n

\* emcStatus->echo_serial_number == serial_number
EchoMatches(snap, n) == snap.echo_serial_number = n

\* Completion tests that take any status but RCS_ERROR for completion, that ask
\* for the awaited serial number to be echoed as well, and an error test that
\* never fires.
StatusDoneEarly(snap) == snap.status # RCS_ERROR
StatusDoneSameSerial(snap) ==
    snap.status = RCS_DONE /\ snap.echo_serial_number = serial_number
StatusErrorIgnored(snap) == FALSE

\* emcStatus->status == RCS_DONE / RCS_ERROR
StatusDone(snap) == snap.status = RCS_DONE
StatusError(snap) == snap.status = RCS_ERROR

\* A send that reuses the serial number.
NextSerialStuck(n) == n

\* ++emcCommandSerialNumber
NextSerial(n) == n + 1

\* A block that sends on every change of the pin, the falling edge included.
PinNonZeroAlways(v) == TRUE

\* *(halui_data->pin) != old_halui_data.pin ;  *(halui_data->pin) != 0
PinChanged(v, old) == v # old
PinNonZero(v) == v # 0

\* A shadow that follows the pin only when the send did not fail.
ShadowUpdateOnSuccess(v, old) == IF retval = <<-1>> THEN old ELSE v

\* old_halui_data.pin = *(halui_data->pin)
ShadowUpdate(v, old) == v

\* The state each input pin's message asks for.
Command(p) == IF p = "machine_on" THEN EMC_TASK_STATE_ON ELSE EMC_TASK_STATE_OFF

\* ------------------------------------------------------- unit conversion
\* A double is modelled by the fraction <<n, d>> it stands for, in lowest terms
\* with d >= 0:  <<1, 0>> and <<-1, 0>> are the infinities and <<0, 0>> is NaN,
\* as the division by 0.0 produces them.
Abs(n) == IF n < 0 THEN -n ELSE n

RECURSIVE GCD(_, _)
GCD(a, b) == IF b = 0 THEN a ELSE GCD(b, a % b)

Sign(n) == IF n < 0 THEN -1 ELSE IF n > 0 THEN 1 ELSE 0

RatNorm(n, d) ==
    IF d = 0 THEN <<Sign(n), 0>>
    ELSE LET g == GCD(Abs(n), Abs(d))
         IN <<Sign(d) * (n \div g), Abs(d) \div g>>

\* a / b and a * b
RatDiv(a, b) == RatNorm(a[1] * b[2], a[2] * b[1])
RatMul(a, b) == RatNorm(a[1] * b[1], a[2] * b[2])

Finite(a) == a[2] # 0
INCH_PER_MM == <<5, 127>>       \* 1.0/25.4
CM_PER_MM == <<1, 10>>          \* 0.1

LinearPolicies == {LINEAR_UNITS_CUSTOM, LINEAR_UNITS_AUTO, LINEAR_UNITS_MM,
                   LINEAR_UNITS_INCH, LINEAR_UNITS_CM}
ProgramUnits == {CANON_UNITS_INCHES, CANON_UNITS_MM, CANON_UNITS_CM, CANON_UNITS_OTHER}
\* Native scales (user units per mm): mm, inch, cm, and 0.
LinearScales == {<<1, 1>>, <<5, 127>>, <<1, 10>>, <<0, 1>>}
\* Arguments: 0, 1, -1, 25.4, 1/2.
LinearInputs == {<<0, 1>>, <<1, 1>>, <<-1, 1>>, <<127, 5>>, <<1, 2>>}

\* A conversion that converts to mm under LINEAR_UNITS_CUSTOM as well.
ConvertLinearCustomInMM(x, scale, policy, punits) ==
    LET in_mm == RatDiv(x, scale)
    IN IF policy = LINEAR_UNITS_MM THEN in_mm
       ELSE IF policy = LINEAR_UNITS_INCH THEN RatMul(in_mm, INCH_PER_MM)
       ELSE IF policy = LINEAR_UNITS_CM THEN RatMul(in_mm, CM_PER_MM)
       ELSE IF policy = LINEAR_UNITS_AUTO
            THEN IF punits = CANON_UNITS_MM THEN in_mm
                 ELSE IF punits = CANON_UNITS_INCHES THEN RatMul(in_mm, INCH_PER_MM)
                 ELSE IF punits = CANON_UNITS_CM THEN RatMul(in_mm, CM_PER_MM)
                 ELSE x
       ELSE in_mm

\* A conversion whose LINEAR_UNITS_AUTO does not look at the program units.
ConvertLinearAutoInMM(x, scale, policy, punits) ==
    LET in_mm == RatDiv(x, scale)
    IN IF policy = LINEAR_UNITS_MM THEN in_mm
       ELSE IF policy = LINEAR_UNITS_INCH THEN RatMul(in_mm, INCH_PER_MM)
       ELSE IF policy = LINEAR_UNITS_CM THEN RatMul(in_mm, CM_PER_MM)
       ELSE IF policy = LINEAR_UNITS_AUTO THEN in_mm
       ELSE x

\* convertLinearUnits(x), for the native scale, the policy and the program units
\* it reads: in_mm = x / scale, then the switch on the policy; the inner switch
\* of LINEAR_UNITS_AUTO has no default and breaks to the final  return u.
ConvertLinear(x, scale, policy, punits) ==
    LET in_mm == RatDiv(x, scale)
    IN IF policy = LINEAR_UNITS_MM THEN in_mm
       ELSE IF policy = LINEAR_UNITS_INCH THEN RatMul(in_mm, INCH_PER_MM)
       ELSE IF policy = LINEAR_UNITS_CM THEN RatMul(in_mm, CM_PER_MM)
       ELSE IF policy = LINEAR_UNITS_AUTO
            THEN IF punits = CANON_UNITS_MM THEN in_mm
                 ELSE IF punits = CANON_UNITS_INCHES THEN RatMul(in_mm, INCH_PER_MM)
                 ELSE IF punits = CANON_UNITS_CM THEN RatMul(in_mm, CM_PER_MM)
                 ELSE x
       ELSE x

convertLinearUnits(x) ==
    ConvertLinear(x, linearUnits, linearUnitConversion, programUnits)

\* The settings of the program run: the policy at its default, no call made.
InitNoConversion ==
    /\ linearUnitConversion = LINEAR_UNITS_AUTO
    /\ linearUnits = <<1, 1>>
    /\ programUnits = CANON_UNITS_MM
    /\ u = <<0, 1>>
    /\ converted = <<>>
    /\ convertedFor = CANON_UNITS_MM

\* The state in which main is entered, but for the settings below: nothing is
\* connected, the serial numbers are 0, no pin is exported yet.
InitProgram ==
    /\ pc = "try_enter"
    /\ emcCommandBuffer = FALSE
    /\ emcStatusBuffer = FALSE
    /\ emcErrorBuffer = FALSE
    /\ emcStatus = FALSE
    /\ snapshot = NoStatus
    /\ emcCommandSerialNumber = 0
    /\ saveEmcCommandSerialNumber = 0
    /\ tryEnd = RETRY_TICKS
    /\ end = 0
    /\ serial_number = 0
    /\ ctx = "send"
    /\ curpin = "machine_on"
    /\ halui_data = [p \in InputPins \cup {"machine_is_on"} |-> 0]
    /\ old_halui_data = [p \in InputPins |-> 0]
    /\ written = <<>>
    /\ retval = <<>>
    /\ exit_status = <<>>
    /\ w = NoWait
    /\ blk = NoBlock
    /\ last = [p \in InputPins |-> NoLast]
    /\ trySleeps = 0
    /\ startupEcho = NoEcho
    /\ polled = NoPoll
    /\ interrupted = NoSignal
    /\ quitLog = <<>>
    /\ EMC_DEBUG = 0
    /\ rcs_print_destination = RCS_PRINT_TO_STDOUT

\* The program as it is: emcTimeout = 0.0 and emcWaitType = EMC_WAIT_DONE are
\* set by their definitions and never assigned.
Init ==
    /\ InitProgram
    /\ InitNoConversion
    /\ emcTimeout = 0
    /\ emcWaitType = EMC_WAIT_DONE
    /\ observing = FALSE

\* The same program, with the polls observed.
InitPoll ==
    /\ InitProgram
    /\ InitNoConversion
    /\ emcTimeout = 0
    /\ emcWaitType = EMC_WAIT_DONE
    /\ observing = TRUE

\* The same program with the static emcTimeout set to 0 or to a positive
\* number of ticks.
InitTimeout ==
    /\ InitProgram
    /\ InitNoConversion
    /\ emcTimeout \in {0, MaxTimeout}
    /\ emcWaitType = EMC_WAIT_DONE
    /\ observing = FALSE

\* The same program with the static emcTimeout set to LongTimeout tenths of a
\* second.
InitBudget ==
    /\ InitProgram
    /\ InitNoConversion
    /\ emcTimeout = LongTimeout
    /\ emcWaitType = EMC_WAIT_DONE
    /\ observing = FALSE

\* The same program with the static emcWaitType set to each of its three values.
InitWait ==
    /\ InitProgram
    /\ InitNoConversion
    /\ emcTimeout = 0
    /\ emcWaitType \in {EMC_WAIT_NONE, EMC_WAIT_RECEIVED, EMC_WAIT_DONE}
    /\ observing = FALSE

\* a & b of C, for a, b >= 0.
RECURSIVE BitAnd(_, _)
BitAnd(a, b) ==
    IF a = 0 \/ b = 0 THEN 0
    ELSE (a % 2) * (b % 2) + 2 * BitAnd(a \div 2, b \div 2)

\* tryNml's test  EMC_DEBUG & EMC_DEBUG_NML == 0 : in C  ==  binds tighter than
\* &, so the test is  EMC_DEBUG & (EMC_DEBUG_NML == 0),  d being EMC_DEBUG.
InhibitDiag(d) == BitAnd(d, IF EMC_DEBUG_NML = 0 THEN 1 ELSE 0) # 0

\* if (test) set_rcs_print_destination(RCS_PRINT_TO_NULL);    before each loop
\* if (test) set_rcs_print_destination(RCS_PRINT_TO_STDOUT);  after each loop
BeforeProbing(dest) == IF InhibitDiag(EMC_DEBUG) THEN RCS_PRINT_TO_NULL ELSE dest
AfterProbing(dest) == IF InhibitDiag(EMC_DEBUG) THEN RCS_PRINT_TO_STDOUT ELSE dest

\* tryNml up to its first loop: the test of EMC_DEBUG, end = RETRY_TIME.
TryNmlEnter ==
    /\ pc = "try_enter"
    /\ pc' = "try_task"
    /\ rcs_print_destination' = BeforeProbing(rcs_print_destination)
    /\ tryEnd' = RETRY_TICKS
    /\ UNCHANGED <<progVars, cfgVars, bootVars, interrupted, quitLog, polled, end,
                   serial_number, ctx, curpin, halui_data, old_halui_data, written,
                   retval, exit_status, w, blk, last>>

\* A retry loop that goes round once more: while (end >= 0.0).
RetryLeftLoose(e) == e >= 0

\* } while (end > 0.0);
RetryLeft(e) == e > 0

\* A main that goes on when tryNml has failed.
AfterTryNmlIgnored(good) == "main_init"

\* main: if (0 != tryNml()) { ...; thisQuit(); exit(1); }
AfterTryNml(good) == IF good THEN "main_init" ELSE "quit"

\* A connection that never sets the status pointer.
EmcStatusAfterGetUnset(ok) == FALSE

\* emcTaskNmlGet, what a connection attempt of the status channel leaves in
\* emcStatus: 0 when the channel is not valid or holds no status record, the
\* address of the channel's record otherwise.
EmcStatusAfterGet(ok) == ok

\* One pass of the first do-loop of tryNml: emcTaskNmlGet(), then the sleep.
TryNmlTask ==
    /\ pc = "try_task"
    /\ \E cmdOK \in BOOLEAN, o \in ConnectOutcomes :
         LET cmd == emcCommandBuffer \/ cmdOK
             stat == emcStatusBuffer \/ o[1]
             good == cmd /\ stat
         IN /\ emcCommandBuffer' = cmd
            /\ emcStatusBuffer' = stat
            /\ emcStatus' = IF emcStatusBuffer THEN emcStatus
                            ELSE EmcStatusAfterGet(o[1])
            /\ snapshot' = IF ~emcStatusBuffer /\ o[1] THEN o[2] ELSE snapshot
            /\ tryEnd' = IF good THEN RETRY_TICKS ELSE tryEnd - 1
            /\ trySleeps' = IF good THEN trySleeps ELSE trySleeps + 1
            /\ pc' = IF good THEN "try_error"
                     ELSE IF RetryLeft(tryEnd - 1) THEN "try_task"
                     ELSE AfterTryNml(FALSE)
            /\ startupEcho' = IF ~good /\ ~RetryLeft(tryEnd - 1) /\ stat
                              THEN <<snapshot'.echo_serial_number>> ELSE NoEcho
            /\ rcs_print_destination' =
                  IF good THEN BeforeProbing(AfterProbing(rcs_print_destination))
                  ELSE IF RetryLeft(tryEnd - 1) THEN rcs_print_destination
                  ELSE AfterProbing(rcs_print_destination)
    /\ UNCHANGED <<polled,
                   emcErrorBuffer, emcCommandSerialNumber, saveEmcCommandSerialNumber,
                   cfgVars, interrupted, quitLog, end, serial_number, ctx, curpin,
                   halui_data,
                   old_halui_data, written, retval, exit_status, w, blk, last>>

\* One pass of the second do-loop of tryNml: emcErrorNmlGet(), then the sleep.
TryNmlError ==
    /\ pc = "try_error"
    /\ \E errOK \in BOOLEAN :
         LET err == emcErrorBuffer \/ errOK
         IN /\ emcErrorBuffer' = err
            /\ tryEnd' = IF err THEN 0 ELSE tryEnd - 1
            /\ trySleeps' = IF err THEN 0 ELSE trySleeps + 1
            /\ pc' = IF err THEN AfterTryNml(TRUE)
                     ELSE IF RetryLeft(tryEnd - 1) THEN "try_error"
                     ELSE AfterTryNml(FALSE)
            /\ startupEcho' = IF ~err /\ ~RetryLeft(tryEnd - 1)
                              THEN <<snapshot.echo_serial_number>> ELSE NoEcho
            /\ rcs_print_destination' =
                  IF err \/ ~RetryLeft(tryEnd - 1)
                  THEN AfterProbing(rcs_print_destination)
                  ELSE rcs_print_destination
    /\ UNCHANGED <<polled,
                   emcCommandBuffer, emcStatusBuffer, emcStatus, snapshot,
                   emcCommandSerialNumber, saveEmcCommandSerialNumber,
                   cfgVars, interrupted, quitLog, end, serial_number, ctx, curpin,
                   halui_data,
                   old_halui_data, written, retval, exit_status, w, blk, last>>

\* A hal_init_pins that leaves the shadows unseeded, at a value other than the
\* one it stores in the pins.
HalInitShadowUnseeded(v) == 1 - v

\* hal_init_pins:  old_halui_data.pin = *(halui_data->pin) = 0;
\* the value stored in the pin, and the shadow as the value of that assignment.
HalInitPin == 0
HalInitShadow(v) == v

\* A main that leaves the serial numbers at the 0 of their initialisers.
StartupSerialUnread(snap) == 0

\* main, what it gives both serial numbers:  emcStatus->echo_serial_number
StartupSerial(snap) == snap.echo_serial_number

\* main, from the return of tryNml to the loop: hal_init_pins(), updateStatus(),
\* and the two serial numbers taken from the echo.
MainInit ==
    /\ pc = "main_init"
    /\ \E o \in PollOutcomes :
         LET snap == PollSnapshot(o[1], o[2], o[3])
         IN /\ snapshot' = snap
            /\ polled' = PollRecord(o[1], o[2])
            /\ emcCommandSerialNumber' = StartupSerial(snap)
            /\ saveEmcCommandSerialNumber' = StartupSerial(snap)
    /\ halui_data' = [halui_data EXCEPT !["machine_on"] = HalInitPin,
                                        !["machine_off"] = HalInitPin]
    /\ old_halui_data' = [p \in InputPins |-> HalInitShadow(HalInitPin)]
    /\ pc' = "chk_changed"
    /\ curpin' = "machine_on"
    /\ UNCHANGED <<bootVars,
                   emcCommandBuffer, emcStatusBuffer, emcErrorBuffer, emcStatus,
                   cfgVars, printVars, interrupted, quitLog, tryEnd, end,
                   serial_number, ctx, written, retval,
                   exit_status, w, blk, last>>

\* A loop that starts its next cycle straight after check_hal_changes.
BlockEndPcNoPoll(p) == "chk_changed"

\* Where check_hal_changes goes after the block of pin p.
BlockEndPc(p) == IF p = "machine_on" THEN "chk_changed" ELSE "modify"
BlockEndPin(p) == IF p = "machine_on" THEN "machine_off" ELSE "machine_on"

\* check_hal_changes, the change test of the current pin's block:
\*   if (*(halui_data->pin) != old_halui_data.pin)
CheckChanged ==
    /\ pc = "chk_changed"
    /\ LET v == halui_data[curpin]
           old == old_halui_data[curpin]
           changed == PinChanged(v, old)
       IN /\ pc' = IF changed THEN "chk_nonzero" ELSE BlockEndPc(curpin)
          /\ curpin' = IF changed THEN curpin ELSE BlockEndPin(curpin)
          /\ blk' = [pin |-> curpin, done |-> ~changed, sample |-> v, shadow0 |-> old,
                     sent |-> 0, raced |-> FALSE, ret |-> <<>>, state |-> "none",
                     plast |-> last[curpin]]
          /\ last' = IF changed THEN last
                     ELSE [last EXCEPT ![curpin] = @ /\ v # 0]
    /\ polled' = NoPoll
    /\ UNCHANGED <<bootVars,
                   progVars, cfgVars, printVars, interrupted, quitLog, tryEnd, end,
                   serial_number, ctx, halui_data,
                   old_halui_data, written, retval, exit_status, w>>

\* A send that waits for the receipt whatever the wait type.
WaitsAlways(t) == TRUE

\* sendMachineOn / sendMachineOff: the wait type t calls one of the two waits
\*   if (emcWaitType == EMC_WAIT_RECEIVED) ... else if (emcWaitType == EMC_WAIT_DONE) ...
\* and any other falls through to return 0.
Waits(t) == t = EMC_WAIT_RECEIVED \/ t = EMC_WAIT_DONE

\* check_hal_changes, the non-zero test and the send it guards:
\*   if (*(halui_data->pin) != 0) sendMachineOn();      (or sendMachineOff)
\* sendMachineOn / sendMachineOff up to the wait: the serial number is
\* incremented, the message written, and the wait chosen by emcWaitType.
CheckNonZero ==
    /\ pc = "chk_nonzero"
    /\ LET v == halui_data[curpin]
           nz == PinNonZero(v)
           sn == NextSerial(emcCommandSerialNumber)
           waits == Waits(emcWaitType)
       IN /\ emcCommandSerialNumber' = IF nz THEN sn ELSE emcCommandSerialNumber
          /\ written' = IF nz
                        THEN Append(written, [msg |-> "EMC_TASK_SET_STATE",
                                              serial_number |-> sn])
                        ELSE written
          /\ pc' = IF nz /\ waits THEN "wait_recv" ELSE "chk_update"
          /\ retval' = IF nz /\ ~waits THEN <<0>> ELSE <<>>
          /\ serial_number' = IF nz /\ waits THEN sn ELSE serial_number
          /\ w' = IF nz /\ waits THEN NewWait ELSE NoWait
          /\ blk' = [blk EXCEPT !.sent = @ + (IF nz THEN 1 ELSE 0),
                                !.state = IF nz THEN Command(curpin) ELSE @,
                                !.raced = @ \/ v # blk.sample]
    /\ end' = 0
    /\ ctx' = "send"
    /\ UNCHANGED <<bootVars, polled,
                   emcCommandBuffer, emcStatusBuffer, emcErrorBuffer, emcStatus, snapshot,
                   saveEmcCommandSerialNumber, cfgVars, printVars, interrupted,
                   quitLog, tryEnd, curpin, halui_data,
                   old_halui_data, exit_status, last>>

\* A receipt wait that hands control back to the dispatching test of the block
\* instead of returning to the send that called it.
AfterReceivedRedispatch(rc) == IF ctx = "quit" THEN "quit_null" ELSE "chk_nonzero"

\* A completion phase that goes on with the elapsed time of the receipt phase.
WaitDoneEndShared(e) == e

\* emcCommandWaitDone's own local, which its loop counts in:  double end = 0.0;
WaitDoneEnd(e) == 0

\* Where control goes when emcCommandWaitReceived returns rc.
AfterReceived(rc) ==
    IF ctx = "quit" THEN "quit_null"
    ELSE IF emcWaitType = EMC_WAIT_DONE /\ rc = 0 THEN "wait_done"
    ELSE "chk_update"

\* One pass of the loop of emcCommandWaitReceived (the loop test, updateStatus,
\* the echo test, the sleep), or its return -1 when the loop test fails.
WaitReceivedStep ==
    /\ pc = "wait_recv"
    /\ \E o \in PollOutcomes :
         LET polling == TimeLeft(end)
             snap == IF polling THEN PollSnapshot(o[1], o[2], o[3]) ELSE snapshot
             hit == polling /\ EchoMatches(snap, serial_number)
             returns == ~polling \/ hit
             rc == IF hit THEN 0 ELSE TIMEOUT_RETURN
             next == IF returns THEN AfterReceived(rc) ELSE "wait_recv"
             sendEnds == returns /\ next = "chk_update"
         IN /\ snapshot' = snap
            /\ polled' = IF polling THEN PollRecord(o[1], o[2]) ELSE NoPoll
            /\ pc' = next
            /\ end' = IF ~returns THEN Tick(end)
                      ELSE IF next = "wait_done" THEN WaitDoneEnd(end) ELSE 0
            /\ retval' = IF sendEnds THEN <<rc>> ELSE retval
            /\ w' = [w EXCEPT
                       !.rcRecv = IF returns THEN <<rc>> ELSE @,
                       !.how = IF ~returns \/ next = "wait_done" THEN "none"
                               ELSE IF hit THEN "received" ELSE "timeout",
                       !.scen = IF polling THEN ScenNext(@, o[2], snap, serial_number)
                                ELSE -1]
    /\ UNCHANGED <<bootVars,
                   emcCommandBuffer, emcStatusBuffer, emcErrorBuffer, emcStatus,
                   emcCommandSerialNumber, saveEmcCommandSerialNumber, cfgVars,
                   printVars, interrupted, quitLog, tryEnd,
                   serial_number, ctx, curpin, halui_data, old_halui_data, written,
                   exit_status, blk, last>>

\* One pass of the second loop of emcCommandWaitDone (the loop test, updateStatus,
\* the RCS_DONE and RCS_ERROR tests, the sleep), or its return -1 when the loop
\* test fails.
WaitDoneStep ==
    /\ pc = "wait_done"
    /\ \E o \in PollOutcomes :
         LET polling == TimeLeft(end)
             snap == IF polling THEN PollSnapshot(o[1], o[2], o[3]) ELSE snapshot
             isDone == polling /\ StatusDone(snap)
             isError == polling /\ ~isDone /\ StatusError(snap)
             returns == ~polling \/ isDone \/ isError
             rc == IF isDone THEN 0 ELSE IF isError THEN ERROR_RETURN
                   ELSE TIMEOUT_RETURN
         IN /\ snapshot' = snap
            /\ polled' = IF polling THEN PollRecord(o[1], o[2]) ELSE NoPoll
            /\ pc' = IF returns THEN "chk_update" ELSE "wait_done"
            /\ end' = IF returns THEN 0 ELSE Tick(end)
            /\ retval' = IF returns THEN <<rc>> ELSE retval
            /\ w' = [w EXCEPT
                       !.how = IF isDone THEN "done" ELSE IF isError THEN "error"
                               ELSE IF returns THEN "timeout" ELSE "none",
                       !.scen = IF polling THEN ScenNext(@, o[2], snap, serial_number)
                                ELSE -1]
    /\ UNCHANGED <<bootVars,
                   emcCommandBuffer, emcStatusBuffer, emcErrorBuffer, emcStatus,
                   emcCommandSerialNumber, saveEmcCommandSerialNumber, cfgVars,
                   printVars, interrupted, quitLog, tryEnd,
                   serial_number, ctx, curpin, halui_data, old_halui_data, written,
                   exit_status, blk, last>>

\* check_hal_changes, the shadow update that ends the block of a changed pin:
\*   old_halui_data.pin = *(halui_data->pin);
CheckUpdate ==
    /\ pc = "chk_update"
    /\ LET v == halui_data[curpin]
           raced == blk.raced \/ v # blk.sample
       IN /\ old_halui_data' =
                 [old_halui_data EXCEPT ![curpin] = ShadowUpdate(v, old_halui_data[curpin])]
          /\ blk' = [blk EXCEPT !.done = TRUE, !.raced = raced, !.ret = retval]
          /\ last' = [last EXCEPT ![curpin] = ~raced /\ v # 0 /\ retval = <<-1>>]
    /\ pc' = BlockEndPc(curpin)
    /\ curpin' = BlockEndPin(curpin)
    /\ retval' = <<>>
    /\ w' = NoWait
    /\ polled' = NoPoll
    /\ UNCHANGED <<bootVars,
                   progVars, cfgVars, printVars, interrupted, quitLog, tryEnd, end,
                   serial_number, ctx, halui_data,
                   written, exit_status>>

\* A loop body in the order sync, poll, sleep.
CycleOrderPollFirst(at) ==
    IF at = "modify" THEN "update"
    ELSE IF at = "update" THEN "sleep"
    ELSE "chk_changed"

\* The body of main's loop after check_hal_changes: modify_hal_pins(), esleep(),
\* updateStatus(), and round again.
CycleOrder(at) ==
    IF at = "modify" THEN "sleep"
    ELSE IF at = "sleep" THEN "update"
    ELSE "chk_changed"

\* An output pin that is set when the machine is on and never cleared.
MachineIsOnLatched(snap, old) ==
    IF snap.task_state = EMC_TASK_STATE_ON THEN 1 ELSE old

\* modify_hal_pins: the value written to machine_is_on (old: the pin before).
MachineIsOn(snap, old) ==
    IF snap.task_state = EMC_TASK_STATE_ON THEN 1 ELSE 0

\* modify_hal_pins().
ModifyHalPins ==
    /\ pc = "modify"
    /\ halui_data' = [halui_data EXCEPT !["machine_is_on"] =
                         MachineIsOn(snapshot, halui_data["machine_is_on"])]
    /\ pc' = CycleOrder("modify")
    /\ blk' = NoBlock
    /\ UNCHANGED <<bootVars, polled,
                   progVars, cfgVars, printVars, interrupted, quitLog, tryEnd, end,
                   serial_number, ctx, curpin,
                   old_halui_data, written, retval, exit_status, w, last>>

\* esleep(EMC_IO_CYCLE_TIME), between modify_hal_pins() and updateStatus().
CycleSleep ==
    /\ pc = "sleep"
    /\ pc' = CycleOrder("sleep")
    /\ UNCHANGED <<progVars, cfgVars, printVars, interrupted, quitLog, bootVars,
                   polled, tryEnd, end, serial_number,
                   ctx, curpin, halui_data, old_halui_data, written, retval,
                   exit_status, w, blk, last>>

\* The updateStatus() that ends a cycle of the main loop; its result is not used.
UpdateStatusMain ==
    /\ pc = "update"
    /\ \E o \in PollOutcomes :
         /\ snapshot' = PollSnapshot(o[1], o[2], o[3])
         /\ polled' = PollRecord(o[1], o[2])
    /\ pc' = CycleOrder("update")
    /\ curpin' = "machine_on"
    /\ UNCHANGED <<bootVars,
                   emcCommandBuffer, emcStatusBuffer, emcErrorBuffer, emcStatus,
                   emcCommandSerialNumber, saveEmcCommandSerialNumber, cfgVars,
                   printVars, interrupted, quitLog, tryEnd,
                   end, serial_number, ctx, halui_data, old_halui_data, written, retval,
                   exit_status, w, blk, last>>

\* thisQuit, entered from main when tryNml failed: the drain wait is made when
\* the status channel exists.
ThisQuitEnter ==
    /\ pc = "quit"
    /\ pc' = IF emcStatusBuffer THEN "wait_recv" ELSE "quit_null"
    /\ ctx' = "quit"
    /\ serial_number' = emcCommandSerialNumber
    /\ end' = 0
    /\ w' = IF emcStatusBuffer THEN NewWait ELSE NoWait
    /\ UNCHANGED <<bootVars, polled,
                   progVars, cfgVars, printVars, interrupted, quitLog, tryEnd, curpin,
                   halui_data, old_halui_data,
                   written, retval, exit_status, blk, last>>

\* A teardown that releases the channels in the order they are acquired.
ThisQuitEventsAcquisitionOrder(cmd, stat, err) ==
    (IF cmd THEN <<"write_null">> ELSE <<>>)
        \o (IF cmd THEN <<"delete_command">> ELSE <<>>)
        \o (IF stat THEN <<"delete_status">> ELSE <<>>)
        \o (IF err THEN <<"delete_error">> ELSE <<>>)

\* thisQuit after the drain, as what it does to the channels cmd, stat and err
\* (TRUE: non-null), in the order of its statements: each statement is guarded
\* by the test of its handle.
ThisQuitEvents(cmd, stat, err) ==
    (IF cmd THEN <<"write_null">> ELSE <<>>)
        \o (IF err THEN <<"delete_error">> ELSE <<>>)
        \o (IF stat THEN <<"delete_status">> ELSE <<>>)
        \o (IF cmd THEN <<"delete_command">> ELSE <<>>)

\* thisQuit after the drain: the null message with the saved serial number, the
\* release of the three channels, exit(0).
ThisQuitFinish ==
    /\ pc = "quit_null"
    /\ quitLog' = ThisQuitEvents(emcCommandBuffer, emcStatusBuffer, emcErrorBuffer)
    /\ written' = IF emcCommandBuffer
                  THEN Append(written, [msg |-> "EMC_NULL",
                                        serial_number |-> saveEmcCommandSerialNumber])
                  ELSE written
    /\ emcErrorBuffer' = FALSE
    /\ emcStatusBuffer' = FALSE
    /\ emcStatus' = IF emcStatusBuffer THEN FALSE ELSE emcStatus
    /\ emcCommandBuffer' = FALSE
    /\ exit_status' = <<0>>
    /\ polled' = NoPoll
    /\ pc' = "exited"
    /\ UNCHANGED <<bootVars,
                   snapshot, emcCommandSerialNumber, saveEmcCommandSerialNumber,
                   cfgVars, printVars, interrupted, tryEnd, end, serial_number, ctx,
                   curpin, halui_data,
                   old_halui_data, retval, w, blk, last>>

\* The environment writes an input pin (a HAL bit: 0 or 1).
PinWrite ==
    /\ pc \in LoopPcs
    /\ \E p \in InputPins, v \in {0, 1} :
         /\ halui_data[p] # v
         /\ v = 1 => Len(written) < MaxSends
         /\ halui_data' = [halui_data EXCEPT ![p] = v]
    /\ UNCHANGED <<bootVars, polled,
                   pc, progVars, cfgVars, printVars, interrupted, quitLog, tryEnd, end,
                   serial_number, ctx, curpin,
                   old_halui_data, written, retval, exit_status, w, blk,
                   last>>

\* An external termination signal (SIGINT, SIGTERM) arrives.  main installs no
\* handler and nothing ever sets 'done': the default disposition ends the process
\* where it stands, and no further statement of the program is executed.
TerminationSignal ==
    /\ pc \notin {"exited", "killed"}
    /\ pc' = "killed"
    /\ interrupted' = <<pc>>
    /\ UNCHANGED <<progVars, cfgVars, printVars, quitLog, bootVars, polled, tryEnd,
                   end, serial_number,
                   ctx, curpin, halui_data, old_halui_data, written, retval,
                   exit_status, w, blk, last>>

ProgramStep ==
    \/ TryNmlEnter
    \/ TryNmlTask
    \/ TryNmlError
    \/ MainInit
    \/ CheckChanged
    \/ CheckNonZero
    \/ WaitReceivedStep
    \/ WaitDoneStep
    \/ CheckUpdate
    \/ ModifyHalPins
    \/ CycleSleep
    \/ UpdateStatusMain
    \/ ThisQuitEnter
    \/ ThisQuitFinish

Next ==
    \/ TryNmlEnter
    \/ TryNmlTask
    \/ TryNmlError
    \/ MainInit
    \/ CheckChanged
    \/ CheckNonZero
    \/ WaitReceivedStep
    \/ WaitDoneStep
    \/ CheckUpdate
    \/ ModifyHalPins
    \/ CycleSleep
    \/ UpdateStatusMain
    \/ ThisQuitEnter
    \/ ThisQuitFinish
    \/ PinWrite
    \/ TerminationSignal

Spec == Init /\ [][Next]_vars
SpecTimeout == InitTimeout /\ [][Next]_vars
\* The program as it is (emcTimeout = 0), with every call of updateStatus observed.
SpecPoll == InitPoll /\ [][Next]_vars
\* The program under each wait type.
SpecWait == InitWait /\ [][Next]_vars
\* The program with a time budget of LongTimeout tenths of a second.
SpecBudget == InitBudget /\ [][Next]_vars

\* The process is scheduled: a program step that is enabled is eventually taken.
\* Nothing is assumed of the environment.
FairSpec == Init /\ [][Next]_vars /\ WF_vars(ProgramStep)
FairSpecTimeout == InitTimeout /\ [][Next]_vars /\ WF_vars(ProgramStep)


\* ---------------------------------------- convertLinearUnits on its own
haluiVars == <<pc, progVars, emcTimeout, emcWaitType, observing, EMC_DEBUG, bootVars,
               printVars, interrupted, quitLog, polled, tryEnd, end, serial_number,
               ctx, curpin, halui_data, old_halui_data, written, retval,
               exit_status, w, blk, last>>

\* Every policy, native scale, program unit and argument.
InitUnits ==
    /\ InitProgram
    /\ emcTimeout = 0
    /\ emcWaitType = EMC_WAIT_DONE
    /\ observing = FALSE
    /\ linearUnitConversion \in LinearPolicies
    /\ linearUnits \in LinearScales
    /\ programUnits \in ProgramUnits
    /\ u \in LinearInputs
    /\ converted = <<>>
    /\ convertedFor = programUnits

\* A call of convertLinearUnits(u).
ConvertLinearUnitsCall ==
    /\ converted' = <<convertLinearUnits(u)>>
    /\ convertedFor' = programUnits
    /\ UNCHANGED <<haluiVars, linearUnitConversion, linearUnits, programUnits, u>>

\* The remote task loads a program of other units: a poll brings them.
ProgramUnitsChange ==
    /\ \E p \in ProgramUnits \ {programUnits} : programUnits' = p
    /\ UNCHANGED <<haluiVars, linearUnitConversion, linearUnits, u, converted,
                   convertedFor>>

NextUnits ==
    \/ ConvertLinearUnitsCall
    \/ ProgramUnitsChange

SpecUnits == InitUnits /\ [][NextUnits]_vars

\* ================================================================ claims

\* C1: the serial numbers of the dispatched commands are strictly increasing, and
\* each dispatch carries the serial number of the dispatch before it plus one,
\* whatever the earlier dispatch returned.
C1_SerialsIncrease ==
    \A i \in 1..Len(written), j \in 1..Len(written) :
        (i < j /\ written[i].msg = "EMC_TASK_SET_STATE"
               /\ written[j].msg = "EMC_TASK_SET_STATE")
            => /\ written[i].serial_number < written[j].serial_number
               /\ (j = i + 1 =>
                     written[j].serial_number = written[i].serial_number + 1)

\* A second command has been dispatched by the machine_off block while the send
\* of the machine_on block had returned -1.
C1_Witness ==
    /\ Len(written) >= 2
    /\ last["machine_on"]
    /\ blk.pin = "machine_off"
    /\ blk.sent = 1

\* C2: a pass over an input pin (its reads agreeing) dispatches exactly one
\* command, the pin's own, when the shadow is 0 and the pin is non-zero, and
\* dispatches nothing otherwise: not while the pin stays non-zero, not on the
\* falling edge.
C2_RisingEdgeOneShot ==
    (blk.done /\ ~blk.raced) =>
        /\ blk.sent = (IF blk.shadow0 = 0 /\ blk.sample # 0 THEN 1 ELSE 0)
        /\ (blk.sent = 1 =>
              blk.state = (IF blk.pin = "machine_on" THEN EMC_TASK_STATE_ON
                           ELSE EMC_TASK_STATE_OFF))

\* A pass over machine_on has seen the rising edge and dispatched its command
\* after an earlier command had been dispatched.
C2_Witness ==
    /\ blk.done /\ ~blk.raced
    /\ blk.pin = "machine_on"
    /\ blk.shadow0 = 0 /\ blk.sample = 1
    /\ blk.sent = 1
    /\ Len(written) = 2

\* C3: after every pass the shadow equals the value the pass sampled, whether the
\* dispatch succeeded or failed; a pin held non-zero after a failed dispatch
\* dispatches nothing in the later passes.
C3_ShadowFollowsPin ==
    (blk.done /\ ~blk.raced) =>
        /\ old_halui_data[blk.pin] = blk.sample
        /\ (blk.plast /\ blk.sample # 0 => blk.sent = 0)

\* A pass over a pin that is still non-zero after its dispatch failed: the shadow
\* is 1 and nothing was dispatched.
C3_Witness ==
    /\ blk.done /\ ~blk.raced
    /\ blk.plast
    /\ blk.sample = 1
    /\ blk.sent = 0
    /\ old_halui_data[blk.pin] = 1
    /\ emcTimeout > 0

\* C4: in the receipt wait for serial number N, while the time budget lasts, a
\* poll after which the echoed serial number equals N ends the wait with success,
\* and a poll after which it differs (a poll without new data among them) does
\* not end the wait.
C4_ReceiptWait ==
    [][(pc = "wait_recv" /\ (emcTimeout <= 0 \/ end < emcTimeout)
           /\ UNCHANGED <<halui_data, interrupted>>)
        => IF snapshot'.echo_serial_number = serial_number
           THEN pc' # "wait_recv" /\ w'.rcRecv = <<0>>
           ELSE pc' = "wait_recv" /\ w'.rcRecv = <<>>]_vars

\* A receipt wait whose first poll had no new data and whose second poll echoed
\* N has returned success: control is in the completion phase.
C4_Witness ==
    /\ pc = "wait_done"
    /\ w.scen = 2
    /\ w.rcRecv = <<0>>
    /\ snapshot.echo_serial_number = serial_number

\* C5: in the completion phase of the WAIT_DONE wait, a poll that observes
\* status ERROR while no earlier poll observed DONE ends the wait with failure.
C5_ErrorFails ==
    [][(pc = "wait_done" /\ (emcTimeout <= 0 \/ end < emcTimeout)
           /\ UNCHANGED <<halui_data, interrupted>> /\ snapshot'.status = RCS_ERROR)
        => pc' = "chk_update" /\ retval' = <<-1>>]_vars

\* A wait has returned failure on a poll that observed ERROR.
C5_Witness ==
    /\ pc = "chk_update"
    /\ w.how = "error"
    /\ snapshot.status = RCS_ERROR
    /\ retval = <<-1>>

\* C6: the WAIT_DONE wait returns success at the first poll of its completion
\* phase after which the status is DONE, and not before; with the polls
\* [no data; echo = N, EXEC; echo = N, DONE] it is still in its receipt phase
\* after one poll, in its completion phase after two, and has returned success
\* after exactly three.
C6_DoneSucceeds ==
    /\ []((ctx = "send" /\ interrupted = NoSignal) =>
            /\ (w.scen = 1 => pc = "wait_recv")
            /\ (w.scen = 2 => pc = "wait_done")
            /\ (w.scen = 3 => pc = "chk_update" /\ retval = <<0>>))
    /\ [][(pc = "wait_done" /\ (emcTimeout <= 0 \/ end < emcTimeout)
              /\ UNCHANGED <<halui_data, interrupted>>)
           => ((pc' = "chk_update" /\ retval' = <<0>>)
                  <=> snapshot'.status = RCS_DONE)]_vars

\* The send has returned success on the third poll of the stream.
C6_Witness ==
    /\ pc = "chk_update"
    /\ ctx = "send"
    /\ w.scen = 3
    /\ w.how = "done"
    /\ retval = <<0>>

C8_TimeoutDistinctFromError ==
    /\ (pc = "chk_update" /\ w.how = "timeout") => retval # <<ERROR_RETURN>>
    /\ (pc = "chk_update" /\ w.how = "error") => retval # <<TIMEOUT_RETURN>>

\* C9: the completion phase does not look at the echoed serial number: a poll
\* after which the echo differs from N ends the wait with success when the status
\* is DONE and with failure when the status is ERROR.
C9_CompletionIgnoresEcho ==
    [][(pc = "wait_done" /\ (emcTimeout <= 0 \/ end < emcTimeout)
           /\ UNCHANGED <<halui_data, interrupted>>
           /\ snapshot'.echo_serial_number # serial_number)
        => /\ (snapshot'.status = RCS_DONE =>
                 pc' = "chk_update" /\ retval' = <<0>>)
           /\ (snapshot'.status = RCS_ERROR =>
                 pc' = "chk_update" /\ retval' = <<-1>>)]_vars

\* The wait for N has returned success on a poll that echoed a later serial
\* number with status DONE.
C9_Witness ==
    /\ pc = "chk_update"
    /\ w.how = "done"
    /\ snapshot.echo_serial_number > serial_number
    /\ snapshot.status = RCS_DONE
    /\ retval = <<0>>

\* C10: once thisQuit is entered with the command and status channels connected,
\* the null command is eventually written, whether or not the serial number the
\* drain waits for is ever echoed (unless a signal ends the process first).
C10_NullCommandEventuallyWritten ==
    (pc = "quit" /\ emcStatusBuffer /\ emcCommandBuffer)
        ~> ((Len(written) > 0 /\ written[Len(written)].msg = "EMC_NULL")
               \/ interrupted # NoSignal)

\* C11: every null command thisQuit writes carries the echo_serial_number the
\* status buffer held at startup, also when thisQuit is reached because the
\* startup connection failed.
C11_NullCarriesStartupEcho ==
    \A i \in 1..Len(written) :
        (written[i].msg = "EMC_NULL" /\ startupEcho # NoEcho)
            => written[i].serial_number = startupEcho[1]

\* C12: when every attempt of the command/status phase fails, tryNml makes
\* exactly 10 attempts, each followed by one sleep of a second, and then fails;
\* there is no 11th attempt, and once tryNml has returned nothing connects or
\* retries a channel again.
C12_TenAttemptsThenFailure ==
    /\ [](pc = "try_task" => (trySleeps <= 9 /\ tryEnd = 10 - trySleeps))
    /\ []((pc = "quit" /\ ~(emcCommandBuffer /\ emcStatusBuffer))
             => (trySleeps = 10 /\ tryEnd = 0))
    /\ [][pc \notin {"try_enter", "try_task", "try_error"} =>
            /\ pc' \notin {"try_enter", "try_task", "try_error"}
            /\ trySleeps' = trySleeps
            /\ (emcCommandBuffer' => emcCommandBuffer)
            /\ (emcStatusBuffer' => emcStatusBuffer)
            /\ (emcErrorBuffer' => emcErrorBuffer)]_vars

\* tryNml has failed after ten failed attempts, with no channel connected.
C12_Witness ==
    /\ pc = "quit"
    /\ ~emcCommandBuffer /\ ~emcStatusBuffer /\ ~emcErrorBuffer
    /\ trySleeps = 10
    /\ tryEnd = 0

\* C13: one call of tryNml makes no more than 10 failed attempts (no more than
\* 10 one-second sleeps), the command/status phase and the error-channel phase
\* taken together.
C13_TotalRetryBudget ==
    trySleeps <= 10

\* C14: when tryNml has failed the process releases the channels it holds and
\* ends with a non-zero exit status, having dispatched no command.
C14_FailedStartupExitsNonZero ==
    pc = "exited" =>
        /\ ~emcCommandBuffer /\ ~emcStatusBuffer /\ ~emcErrorBuffer
        /\ \A i \in 1..Len(written) : written[i].msg # "EMC_TASK_SET_STATE"
        /\ exit_status # <<>>
        /\ exit_status[1] # 0

\* C15: a command is dispatched only while the command, status and error
\* channels are all connected: the step that writes it is taken with the four
\* pointers non-null, and in every state in which a command has been dispatched
\* they are non-null (nothing was dispatched before tryNml succeeded, nothing is
\* dispatched after the teardown).
C15_DispatchOnlyConnected ==
    /\ []((\E i \in 1..Len(written) : written[i].msg = "EMC_TASK_SET_STATE")
            => (emcCommandBuffer /\ emcStatusBuffer /\ emcStatus /\ emcErrorBuffer))
    /\ [][(Len(written') > Len(written)
             /\ written'[Len(written')].msg = "EMC_TASK_SET_STATE")
           => (emcCommandBuffer /\ emcStatusBuffer /\ emcStatus /\ emcErrorBuffer
                 /\ pc = "chk_nonzero")]_vars

\* The first command has been written and its wait is running, all channels
\* connected.
C15_Witness ==
    /\ pc = "wait_recv"
    /\ ctx = "send"
    /\ Len(written) = 1
    /\ written[1].msg = "EMC_TASK_SET_STATE"
    /\ emcCommandBuffer /\ emcStatusBuffer /\ emcStatus /\ emcErrorBuffer

\* C16: at most one acknowledgment wait is in progress: a running wait is the
\* wait of the command written last, and the step that increments the serial
\* number and writes a command is taken only when no wait is open and the send
\* before it has returned to check_hal_changes; so the command of a second pin is
\* written only after the wait of the first has ended.
C16_OneWaitAtATime ==
    /\ []((pc \in {"wait_recv", "wait_done"} /\ ctx = "send")
            => /\ serial_number = emcCommandSerialNumber
               /\ written[Len(written)].msg = "EMC_TASK_SET_STATE"
               /\ written[Len(written)].serial_number = serial_number)
    /\ [][((Len(written') > Len(written)
              /\ written'[Len(written')].msg = "EMC_TASK_SET_STATE")
           \/ (pc # "main_init"
                 /\ emcCommandSerialNumber' # emcCommandSerialNumber))
          => (pc \notin {"wait_recv", "wait_done"}
                /\ w = NoWait
                /\ retval = <<>>)]_vars

\* The wait of the machine_off command is running; the machine_on command was
\* written before it and its wait has ended.
C16_Witness ==
    /\ pc = "wait_recv"
    /\ curpin = "machine_off"
    /\ Len(written) = 2
    /\ old_halui_data["machine_on"] = 1
    /\ old_halui_data["machine_off"] = 0
    /\ serial_number = written[1].serial_number + 1

\* C17: updateStatus returns 0 exactly when the status channel is there and
\* valid and peek returned 0 (no new data) or EMC_STAT_TYPE, and -1 in every
\* other case; a call that returns -1 leaves the status snapshot as it was, and
\* the snapshot changes across a call only when peek has delivered new status
\* data.
C17_UpdateStatusResult ==
    /\ [](polled # NoPoll =>
            /\ polled[1].ret \in {0, -1}
            /\ (polled[1].ret = 0
                  <=> (emcStatus /\ emcStatusBuffer /\ polled[1].valid
                         /\ (polled[1].peek = <<0>>
                               \/ polled[1].peek = <<EMC_STAT_TYPE>>))))
    /\ [][(polled' # NoPoll /\ polled'[1].ret = -1) => snapshot' = snapshot]_vars
    /\ [][(pc # "try_task" /\ snapshot' # snapshot)
            => (polled' # NoPoll /\ polled'[1].peek = <<EMC_STAT_TYPE>>)]_vars

\* The poll of a main-loop cycle has met a message of an unexpected type and
\* returned -1.
C17_Witness ==
    /\ pc = "chk_changed"
    /\ polled # NoPoll
    /\ polled[1].valid
    /\ polled[1].peek = <<UNEXPECTED_TYPE>>
    /\ polled[1].ret = -1
    /\ Len(written) >= 1

\* C18: a failed status poll stops nothing. In the main loop a call of
\* updateStatus that returns -1 changes no program state and the loop goes on to
\* its next cycle. In a wait loop a call that returns -1 leaves the snapshot as
\* it was, and the wait ends at that pass only if the snapshot it already held
\* satisfies the wait's own condition (the echo equals N; the status is DONE or
\* ERROR); no poll failure ends the process.
C18_PollFailureIsTransient ==
    /\ [](pc \in LoopPcs => exit_status = <<>>)
    /\ [][(pc = "update" /\ pc' # "update" /\ UNCHANGED interrupted
             /\ polled' # NoPoll /\ polled'[1].ret = -1)
           => (pc' = "chk_changed" /\ curpin' = "machine_on"
                 /\ UNCHANGED <<progVars, halui_data, old_halui_data, written,
                                retval, exit_status>>)]_vars
    /\ [][(pc = "wait_recv" /\ UNCHANGED <<halui_data, interrupted>>
             /\ polled' # NoPoll /\ polled'[1].ret = -1)
           => /\ snapshot' = snapshot
              /\ (pc' = "wait_recv" \/ snapshot.echo_serial_number = serial_number)
              /\ w'.rcRecv # <<-1>>]_vars
    /\ [][(pc = "wait_done" /\ UNCHANGED <<halui_data, interrupted>>
             /\ polled' # NoPoll /\ polled'[1].ret = -1)
           => /\ snapshot' = snapshot
              /\ (pc' = "wait_done" \/ snapshot.status = RCS_DONE
                    \/ snapshot.status = RCS_ERROR)]_vars

\* A receipt wait is still running after a poll of it failed.
C18_Witness ==
    /\ pc = "wait_recv"
    /\ ctx = "send"
    /\ polled # NoPoll
    /\ polled[1].ret = -1
    /\ snapshot.echo_serial_number # serial_number
    /\ w.rcRecv = <<>>

\* C19: outside the waits updateStatus is called exactly once in every cycle of
\* the main loop: a cycle begins only from main's first call or from the poll
\* that ended the cycle before, the poll is reached only from the cycle sleep and
\* is left for the next cycle; every other call is made by a wait loop; the pin
\* blocks, the sends, modify_hal_pins and the sleep neither call it nor change the
\* snapshot.
C19_OneRefreshPerCycle ==
    /\ [][(pc' = "chk_changed" /\ curpin' = "machine_on"
             /\ ~(pc = "chk_changed" /\ curpin = "machine_on"))
           => (pc = "update" \/ pc = "main_init")]_vars
    /\ [][(pc = "update" /\ pc' # "update" /\ UNCHANGED interrupted)
           => (pc' = "chk_changed" /\ curpin' = "machine_on"
                 /\ polled' # NoPoll)]_vars
    /\ [][(pc' = "update" /\ pc # "update" /\ UNCHANGED interrupted) => pc = "sleep"]_vars
    /\ [][(pc \in {"chk_changed", "chk_nonzero", "chk_update", "modify", "sleep"})
           => (snapshot' = snapshot
                 /\ (polled' = NoPoll \/ polled' = polled))]_vars
    /\ [][(snapshot' # snapshot \/ (polled' # NoPoll /\ polled' # polled))
           => pc \in {"try_task", "main_init", "update", "wait_recv",
                      "wait_done"}]_vars

\* A cycle has begun after the one poll of the cycle before it, in which a
\* command was dispatched and waited for.
C19_Witness ==
    /\ pc = "chk_changed"
    /\ curpin = "machine_on"
    /\ polled # NoPoll
    /\ polled[1].peek = <<EMC_STAT_TYPE>>
    /\ Len(written) >= 1
    /\ old_halui_data["machine_on"] = 1

\* C20 as stated: in every cycle the pin synchronisation is followed by the
\* status poll, and the cycle sleep comes after the poll (sync, poll, sleep).
C20_SyncPollSleep ==
    /\ [][(pc = "modify" /\ pc' # "modify" /\ UNCHANGED interrupted) => pc' = "update"]_vars
    /\ [][(pc = "update" /\ pc' # "update" /\ UNCHANGED interrupted) => pc' = "sleep"]_vars

\* C20 as amended: in every cycle check_hal_changes (machine_on, then
\* machine_off) is followed by modify_hal_pins, modify_hal_pins by the cycle
\* sleep, the sleep by the status poll, and the poll by the next cycle's
\* check_hal_changes (sync, sleep, poll); the sleep changes no program state.
C20_SyncSleepPoll ==
    /\ [][(pc' = "modify" /\ pc # "modify" /\ UNCHANGED interrupted)
           => (curpin = "machine_off" /\ pc \in {"chk_changed", "chk_update"})]_vars
    /\ [][(pc = "modify" /\ pc' # "modify" /\ UNCHANGED interrupted) => pc' = "sleep"]_vars
    /\ [][(pc = "sleep" /\ pc' # "sleep" /\ UNCHANGED interrupted)
           => (pc' = "update"
                 /\ UNCHANGED <<progVars, halui_data, old_halui_data, written>>)]_vars
    /\ [][(pc = "update" /\ pc' # "update" /\ UNCHANGED interrupted)
           => (pc' = "chk_changed" /\ curpin' = "machine_on")]_vars

\* The cycle sleep has been taken after modify_hal_pins wrote machine_is_on, and
\* the poll of the cycle is still to come.
C20_Witness ==
    /\ pc = "update"
    /\ halui_data["machine_is_on"] = 1
    /\ snapshot.task_state = EMC_TASK_STATE_ON
    /\ Len(written) >= 1

\* C21: a termination signal that arrives while the main loop runs ends the loop
\* and the process goes through thisQuit: when the process has ended after such
\* a signal, the null command with the saved serial number is the last message
\* written, the three channels are released and exit has been called.
C21_SignalLeadsToShutdown ==
    (interrupted # NoSignal /\ interrupted[1] \in LoopPcs /\ ctx = "send"
        /\ pc \in {"killed", "exited"})
      => /\ pc = "exited"
         /\ written # <<>>
         /\ written[Len(written)] = [msg |-> "EMC_NULL",
                                     serial_number |-> saveEmcCommandSerialNumber]
         /\ ~emcCommandBuffer /\ ~emcStatusBuffer /\ ~emcErrorBuffer
         /\ exit_status # <<>>

C23_MachineIsOnFollowsSnapshot ==
    /\ []((pc = "sleep" \/ pc = "update")
            => halui_data["machine_is_on"]
                 = (IF snapshot.task_state = EMC_TASK_STATE_ON THEN 1 ELSE 0))
    /\ [][(pc = "modify" /\ pc' # "modify" /\ UNCHANGED interrupted)
           => /\ pc' = "sleep"
              /\ halui_data'["machine_is_on"]
                   = (IF snapshot.task_state = EMC_TASK_STATE_ON THEN 1 ELSE 0)
              /\ \A p \in InputPins : halui_data'[p] = halui_data[p]]_vars
    /\ [][(pc' = "sleep" /\ pc # "sleep") => pc = "modify"]_vars
    /\ [][halui_data'["machine_is_on"] # halui_data["machine_is_on"]
           => pc = "modify"]_vars

\* modify_hal_pins has written 0 for a snapshot that says OFF, after two
\* commands were dispatched of which the one of machine_off returned failure
\* (the pin has been held non-zero since).
C23_Witness ==
    /\ pc = "sleep"
    /\ halui_data["machine_is_on"] = 0
    /\ snapshot.task_state = EMC_TASK_STATE_OFF
    /\ last["machine_off"]
    /\ Len(written) = 2
    /\ old_halui_data["machine_on"] = 1

\* C24: when main enters its loop, hal_init_pins has stored 0 in every input pin
\* and in its shadow, so before the first pass of check_hal_changes shadow and
\* pin agree; an input pin becomes non-zero only by a write of the environment,
\* and a command is dispatched only on a pin that is read non-zero: without
\* such a write the first cycle (like any other) dispatches nothing.
C24_ShadowsSeeded ==
    /\ [][(pc = "main_init" /\ pc' # "main_init" /\ UNCHANGED interrupted)
           => /\ pc' = "chk_changed" /\ curpin' = "machine_on"
              /\ \A p \in InputPins :
                    /\ halui_data'[p] = 0
                    /\ old_halui_data'[p] = halui_data'[p]
              /\ written' = <<>>]_vars
    /\ [][(\E p \in InputPins : halui_data[p] = 0 /\ halui_data'[p] # 0)
           => (pc \in LoopPcs /\ pc' = pc
                 /\ UNCHANGED <<old_halui_data, written, progVars>>)]_vars
    /\ [][(Len(written') > Len(written)
             /\ written'[Len(written')].msg = "EMC_TASK_SET_STATE")
           => (halui_data[curpin] # 0 /\ pc = "chk_nonzero")]_vars

\* The loop is entered: the first pass of check_hal_changes is about to read
\* machine_on, pins and shadows are 0, nothing has been dispatched, and
\* modify_hal_pins has not yet run for the snapshot polled at startup.
C24_Witness ==
    /\ pc = "chk_changed"
    /\ curpin = "machine_on"
    /\ blk = NoBlock
    /\ written = <<>>
    /\ \A p \in InputPins : halui_data[p] = 0 /\ old_halui_data[p] = 0
    /\ halui_data["machine_is_on"] = 0
    /\ snapshot.task_state = EMC_TASK_STATE_ON
    /\ emcCommandBuffer /\ emcStatusBuffer /\ emcErrorBuffer

\* C25: with NML debugging not enabled (the NML flag of EMC_DEBUG is clear) the
\* diagnostic output goes to null while either probing loop of tryNml runs, and
\* to stdout once tryNml has returned, on success and on failure.
C25_DiagnosticsMutedWhileProbing ==
    (BitAnd(EMC_DEBUG, EMC_DEBUG_NML) = 0 /\ interrupted = NoSignal) =>
        /\ (pc \in {"try_task", "try_error"}
              => rcs_print_destination = RCS_PRINT_TO_NULL)
        /\ (pc \notin {"try_enter", "try_task", "try_error"}
              => rcs_print_destination = RCS_PRINT_TO_STDOUT)

\* C26: with the wait type EMC_WAIT_NONE a send increments the serial number,
\* writes the command carrying it and returns 0 in the same step, without a poll
\* of the status channel and without a sleep: no wait loop is entered for it,
\* and the snapshot changes only at the polls of startup and of the main loop
\* (and in the drain of thisQuit).
C26_NoWaitReturnsAtOnce ==
    /\ []((emcWaitType = EMC_WAIT_NONE /\ ctx = "send")
            => (pc \notin {"wait_recv", "wait_done"} /\ w = NoWait /\ end = 0))
    /\ [][(emcWaitType = EMC_WAIT_NONE /\ pc = "chk_nonzero"
             /\ halui_data[curpin] # 0 /\ UNCHANGED <<halui_data, interrupted>>)
           => /\ emcCommandSerialNumber' = emcCommandSerialNumber + 1
              /\ written' = Append(written,
                                   [msg |-> "EMC_TASK_SET_STATE",
                                    serial_number |-> emcCommandSerialNumber + 1])
              /\ retval' = <<0>>
              /\ pc' = "chk_update"
              /\ snapshot' = snapshot]_vars
    /\ [][(emcWaitType = EMC_WAIT_NONE /\ snapshot' # snapshot)
           => (pc \in {"try_task", "main_init", "update"}
                 \/ (pc = "wait_recv" /\ ctx = "quit"))]_vars

\* Under EMC_WAIT_NONE the second send has returned 0 while the status still
\* echoes another serial number and reports an error.
C26_Witness ==
    /\ emcWaitType = EMC_WAIT_NONE
    /\ pc = "chk_update"
    /\ retval = <<0>>
    /\ Len(written) = 2
    /\ snapshot.echo_serial_number # emcCommandSerialNumber
    /\ snapshot.status = RCS_ERROR

\* C27: under LINEAR_UNITS_CUSTOM convertLinearUnits returns its argument as it
\* was given, for every argument, every native scale (0 included) and every
\* program unit.
C27_CustomReturnsInput ==
    []((converted # <<>> /\ linearUnitConversion = LINEAR_UNITS_CUSTOM)
         => converted = <<u>>)

\* Under LINEAR_UNITS_CUSTOM, with inches as the native unit and inch as the
\* program unit, a call has returned the 1 it was given (in mm it is 25.4).
C27_Witness ==
    /\ linearUnitConversion = LINEAR_UNITS_CUSTOM
    /\ linearUnits = <<5, 127>>
    /\ convertedFor = CANON_UNITS_INCHES
    /\ u = <<1, 1>>
    /\ converted = <<u>>
    /\ RatDiv(u, linearUnits) = <<127, 5>>

\* C28: under LINEAR_UNITS_AUTO a call made while the program units are mm, inch
\* or cm returns what the explicit policy of that unit returns for the same
\* argument and scale, that is the argument in mm times 1, 1/25.4 or 1/10; and
\* of two calls made under different program units the second returns another
\* value than the first, when the argument in mm is finite and not 0.
C28_AutoFollowsProgramUnits ==
    /\ []((converted # <<>> /\ linearUnitConversion = LINEAR_UNITS_AUTO)
            => /\ convertedFor = CANON_UNITS_MM
                    => /\ converted[1] = ConvertLinear(u, linearUnits, LINEAR_UNITS_MM,
                                                       convertedFor)
                       /\ converted[1] = RatDiv(u, linearUnits)
               /\ convertedFor = CANON_UNITS_INCHES
                    => /\ converted[1] = ConvertLinear(u, linearUnits, LINEAR_UNITS_INCH,
                                                       convertedFor)
                       /\ converted[1] = RatMul(RatDiv(u, linearUnits), <<5, 127>>)
               /\ convertedFor = CANON_UNITS_CM
                    => /\ converted[1] = ConvertLinear(u, linearUnits, LINEAR_UNITS_CM,
                                                       convertedFor)
                       /\ converted[1] = RatMul(RatDiv(u, linearUnits), <<1, 10>>))
    /\ [][(/\ linearUnitConversion = LINEAR_UNITS_AUTO
           /\ converted # <<>>
           /\ converted' # <<>>
           /\ convertedFor' # convertedFor
           /\ {convertedFor, convertedFor'}
                 \subseteq {CANON_UNITS_MM, CANON_UNITS_INCHES, CANON_UNITS_CM}
           /\ Finite(RatDiv(u, linearUnits))
           /\ RatDiv(u, linearUnits) # <<0, 1>>)
          => converted'[1] # converted[1]]_vars

\* Under LINEAR_UNITS_AUTO, native mm: 25.4 was converted while the program was
\* in mm, the program units then became inches, and the second call returned 1.
C28_Witness ==
    /\ linearUnitConversion = LINEAR_UNITS_AUTO
    /\ linearUnits = <<1, 1>>
    /\ u = <<127, 5>>
    /\ programUnits = CANON_UNITS_INCHES
    /\ convertedFor = CANON_UNITS_INCHES
    /\ converted = <<<<1, 1>>>>

\* C29: a receipt wait for serial number N comes to success only in a pass of
\* its loop whose poll leaves the echoed serial number equal to N; a pass whose
\* poll leaves a greater echo does not end the wait with success: the wait goes
\* on, or returns failure once a positive time budget is used up, and with the
\* budget 0 it is left only on an echo equal to N.
C29_ReceiptNeedsExactEcho ==
    /\ [][(w'.rcRecv = <<0>> /\ w.rcRecv # <<0>>)
           => /\ pc = "wait_recv"
              /\ (emcTimeout <= 0 \/ end < emcTimeout)
              /\ snapshot'.echo_serial_number = serial_number
              /\ serial_number' = serial_number]_vars
    /\ [][(pc = "wait_recv" /\ snapshot'.echo_serial_number > serial_number
             /\ UNCHANGED <<halui_data, interrupted>>)
           => IF emcTimeout > 0 /\ end >= emcTimeout
              THEN w'.rcRecv = <<-1>>
              ELSE pc' = "wait_recv" /\ w'.rcRecv = <<>>]_vars
    /\ [][(pc = "wait_recv" /\ pc' # "wait_recv" /\ emcTimeout <= 0
             /\ UNCHANGED interrupted)
           => snapshot'.echo_serial_number = serial_number]_vars

\* A receipt wait for N = 1 under a positive budget has made a pass, the status
\* echoes 2, and the wait is still in its loop.
C29_Witness ==
    /\ pc = "wait_recv"
    /\ ctx = "send"
    /\ emcTimeout > 0
    /\ end = 1
    /\ serial_number = 1
    /\ snapshot.echo_serial_number = 2
    /\ w.rcRecv = <<>>

\* The statement of C30 as it stands: with a time budget of T > 0, no phase of
\* a wait makes more than ceil(T/0.1) polls, which for a budget of emcTimeout
\* tenths of a second is emcTimeout polls: a pass that polls is made after fewer
\* than emcTimeout sleeps of its phase.
C30_PollsWithinCeiling ==
    [][(pc \in {"wait_recv", "wait_done"} /\ emcTimeout > 0
          /\ UNCHANGED <<halui_data, interrupted>> /\ w'.how # "timeout")
        => end + 1 <= emcTimeout]_vars

\* C30: with a time budget of T > 0 the WAIT_DONE wait ends, and its two phases
\* share no budget: a pass that does not return adds one sleep to the elapsed
\* time of its phase, the completion phase is entered with the elapsed time 0,
\* a phase makes at most ceil(T/0.1) + 1 polls, and after that many sleeps it
\* returns failure without another poll.
C30_WaitDoneBounded ==
    /\ []((pc \in {"wait_recv", "wait_done"} /\ emcTimeout > 0)
            => end <= emcTimeout + 1)
    /\ [][(pc \in {"wait_recv", "wait_done"} /\ emcTimeout > 0
             /\ UNCHANGED <<halui_data, interrupted>>)
           => /\ w'.how # "timeout" => end + 1 <= emcTimeout + 1
              /\ pc' = pc => end' = end + 1
              /\ end = emcTimeout + 1
                    => /\ pc' \notin {"wait_recv", "wait_done"}
                       /\ w'.how = "timeout"
                       /\ snapshot' = snapshot]_vars
    /\ [][(pc = "wait_recv" /\ pc' = "wait_done")
           => (end' = 0 /\ w'.rcRecv = <<0>>)]_vars

\* A send has returned failure for time in the completion phase, after its
\* receipt phase had ended with success.
C30_Witness ==
    /\ pc = "chk_update"
    /\ emcTimeout > 0
    /\ w.rcRecv = <<0>>
    /\ w.how = "timeout"
    /\ retval = <<-1>>

\* C31: a pass of check_hal_changes that has moved the shadow of an input pin
\* from 0 to non-zero has dispatched exactly one command for that pin, whatever
\* an external writer did to the pin between the three reads of the pass.
C31_RisingEdgeHasDispatch ==
    (blk.done /\ blk.pin \in InputPins /\ blk.shadow0 = 0
       /\ old_halui_data[blk.pin] # 0)
        => blk.sent = 1

Dispatches == Len(SelectSeq(written, LAMBDA m : m.msg = "EMC_TASK_SET_STATE"))

\* C33: main enters its loop with emcCommandSerialNumber and
\* saveEmcCommandSerialNumber both equal to the echo_serial_number of the
\* snapshot polled at startup and with nothing dispatched; no later step
\* changes saveEmcCommandSerialNumber; emcCommandSerialNumber is always
\* saveEmcCommandSerialNumber plus the number of dispatches, so that the first
\* command carries the startup echo plus one; and a dispatch adds one to
\* emcCommandSerialNumber and leaves the saved serial number, the three
\* channels and emcStatus as they were.
C33_SerialCounterFromStartupEcho ==
    /\ [](emcCommandSerialNumber = saveEmcCommandSerialNumber + Dispatches)
    /\ []((written # <<>> /\ written[1].msg = "EMC_TASK_SET_STATE")
            => written[1].serial_number = saveEmcCommandSerialNumber + 1)
    /\ [][(pc = "main_init" /\ pc' # "main_init" /\ UNCHANGED interrupted)
           => /\ pc' = "chk_changed"
              /\ emcCommandSerialNumber' = snapshot'.echo_serial_number
              /\ saveEmcCommandSerialNumber' = snapshot'.echo_serial_number
              /\ written' = <<>>]_vars
    /\ [][pc # "main_init"
           => saveEmcCommandSerialNumber' = saveEmcCommandSerialNumber]_vars
    /\ [][(Len(written') > Len(written) /\ pc # "quit_null")
           => /\ pc = "chk_nonzero"
              /\ emcCommandSerialNumber' = emcCommandSerialNumber + 1
              /\ written'[Len(written')].serial_number = emcCommandSerialNumber'
              /\ UNCHANGED <<saveEmcCommandSerialNumber, emcCommandBuffer,
                             emcStatusBuffer, emcErrorBuffer, emcStatus>>]_vars

\* Startup read the echo 1, two commands were dispatched since, the first with
\* the serial number 2, and the counter stands at 3.
C33_Witness ==
    /\ pc \in LoopPcs
    /\ ctx = "send"
    /\ saveEmcCommandSerialNumber = 1
    /\ emcCommandSerialNumber = 3
    /\ Dispatches = 2
    /\ written[1].serial_number = 2
====
